---------------------------- MODULE Spec2Model ----------------------------
(***************************************************************************)
(* LLM judging pipeline of pre_train_etl:                                  *)
(*   analysis/llm_bad_case_analysis/arkts_badcase_pipeline.py              *)
(*   analysis/llm_bad_case_analysis/full_data_processing/                  *)
(*       arkts_full_data_processor.py                                      *)
(*                                                                         *)
(* Five specifications share the module.                                   *)
(*   Spec          the resumable full sweep (process_full_data):           *)
(*                 processes, kills and restarts against one output        *)
(*                 directory.                                              *)
(*   SpecJudge     one call of run_one_judgement on an arbitrary judge     *)
(*                 response (transport failure, bad body, raw judge text). *)
(*   SpecSample    two calls of stratified_sample on an arbitrary corpus,  *)
(*                 sample size and seed.                                   *)
(*   SpecConsensus one call of consensus on an arbitrary list of replica   *)
(*                 judgements.                                             *)
(*   SpecRound     one sampling round (run_round).                         *)
(*                                                                         *)
(* Texts are sequences of tokens.  A token is one character class the      *)
(* extraction code looks at (brace, code fence, newline, other character)  *)
(* or one JSON member of the judge's answer.  Numbers are in tenths        *)
(* (4.5 is 45), so that 0.2 and 0.3 are the integers 2 and 3.              *)
(***************************************************************************)
EXTENDS Integers, Sequences, FiniteSets, Bags, TLC

\* ------------------------------------------------------------------------
\* Bounds of the model
\* ------------------------------------------------------------------------
NumItems == 2
MaxReplicas == 2
MaxBatchSize == 2
MaxConcurrency == 2
MaxRuns == 2
\* stratified_sample: records of a corpus, seeds
MaxCorpus == 5
MaxSeed == 1
\* consensus: replica judgements of one item
MaxJudgements == 3

\* ------------------------------------------------------------------------
\* Program constants
\* ------------------------------------------------------------------------
RationaleMax == 400
ScoreMax == 50
ConfidenceMax == 10
FallbackScore == 30
ApiErrorConfidence == 2
ParseErrorConfidence == 3
HttpOk == 200

Decisions == {"KEEP", "KEEP_WITH_TAG", "REMOVE"}

Min(a, b) == IF a < b THEN a ELSE b
Max(a, b) == IF a > b THEN a ELSE b

RECURSIVE SumSeq(_)
SumSeq(s) == IF s = <<>> THEN 0 ELSE Head(s) + SumSeq(Tail(s))

\* ------------------------------------------------------------------------
\* Tokens of a raw judge text
\* ------------------------------------------------------------------------
LB == "{"
RB == "}"
FENCE == "FENCE"
NL == "NL"
PROSE == "x"
\* ROPEN opens the string value of the rationale member, RCLOSE closes it
ROPEN == "r<"
RCLOSE == ">"

DecisionTokens == {"d:KEEP", "d:KEEP_WITH_TAG", "d:REMOVE", "d: keep ", "d:MAYBE"}
LabelTokens == {"l:[]", "l:[A]", "l:null", "l:str", "l:[1]"}
ArktsTokens == {"a:45", "a:70", "a:abc"}
QualityTokens == {"q:20", "q:-10"}
ConfidenceTokens == {"c:9", "c:15"}
RationaleTokens == {"r:long"}
MemberTokens == DecisionTokens \cup LabelTokens \cup ArktsTokens
                \cup QualityTokens \cup ConfidenceTokens \cup RationaleTokens

\* the JSON value a member token carries
DecisionOf(tok) ==
    CASE tok = "d:KEEP" -> "KEEP"
      [] tok = "d:KEEP_WITH_TAG" -> "KEEP_WITH_TAG"
      [] tok = "d:REMOVE" -> "REMOVE"
      [] tok = "d: keep " -> " keep "
      [] OTHER -> "MAYBE"

\* kind: "list" (a JSON array), "null", "other" (any non-list value);
\* items: str(x) of every element
LabelsOf(tok) ==
    CASE tok = "l:[]" -> [kind |-> "list", items |-> <<>>]
      [] tok = "l:[A]" -> [kind |-> "list", items |-> <<"A">>]
      [] tok = "l:[1]" -> [kind |-> "list", items |-> <<"1">>]
      [] tok = "l:null" -> [kind |-> "null", items |-> <<>>]
      [] OTHER -> [kind |-> "other", items |-> <<>>]

\* a rationale member whose string has one plain character more than the
\* limit of validate_judgement
RationaleOf(tok) == [k \in 1..(RationaleMax + 1) |-> PROSE]

\* num: float() accepts the value; val in tenths
NumberOf(tok) ==
    CASE tok = "a:45" -> [num |-> TRUE, val |-> 45]
      [] tok = "a:70" -> [num |-> TRUE, val |-> 70]
      [] tok = "q:20" -> [num |-> TRUE, val |-> 20]
      [] tok = "q:-10" -> [num |-> TRUE, val |-> -10]
      [] tok = "c:9" -> [num |-> TRUE, val |-> 9]
      [] tok = "c:15" -> [num |-> TRUE, val |-> 15]
      [] OTHER -> [num |-> FALSE, val |-> 0]

\* ------------------------------------------------------------------------
\* String helpers used by extract_json_object
\* ------------------------------------------------------------------------
RECURSIVE LStrip(_)
LStrip(s) == IF s # <<>> /\ Head(s) = NL THEN LStrip(Tail(s)) ELSE s

RECURSIVE RStrip(_)
RStrip(s) ==
    IF s # <<>> /\ s[Len(s)] = NL THEN RStrip(SubSeq(s, 1, Len(s) - 1)) ELSE s

\* str.strip()
Strip(s) == RStrip(LStrip(s))

\* s.split(fence): the pieces between the fences, empty pieces included
RECURSIVE Split(_, _)
Split(s, cur) ==
    IF s = <<>> THEN <<cur>>
    ELSE IF Head(s) = FENCE THEN <<cur>> \o Split(Tail(s), <<>>)
    ELSE Split(Tail(s), Append(cur, Head(s)))

\* "\n".join(parts)
RECURSIVE Join(_)
Join(parts) ==
    IF parts = <<>> THEN <<>>
    ELSE IF Len(parts) = 1 THEN parts[1]
    ELSE parts[1] \o <<NL>> \o Join(Tail(parts))

\* s.find(c, from): least index >= from holding c, 0 when there is none
Find(s, c, from) ==
    IF \E i \in from..Len(s) : s[i] = c
    THEN CHOOSE i \in from..Len(s) :
            s[i] = c /\ \A k \in from..(i - 1) : s[k] # c
    ELSE 0

\* s.rfind(c): greatest index holding c, 0 when there is none
RFind(s, c) ==
    IF \E i \in 1..Len(s) : s[i] = c
    THEN CHOOSE i \in 1..Len(s) :
            s[i] = c /\ \A k \in (i + 1)..Len(s) : s[k] # c
    ELSE 0

\* ------------------------------------------------------------------------
\* json.loads on a candidate chunk
\* ------------------------------------------------------------------------
OTHERMEMBER == "m:other"
AllMemberTokens == MemberTokens \cup {OTHERMEMBER}

KeyOf(tok) ==
    CASE tok \in DecisionTokens -> "decision"
      [] tok \in LabelTokens -> "labels"
      [] tok \in ArktsTokens -> "arkts_score"
      [] tok \in QualityTokens -> "quality_score"
      [] tok \in ConfidenceTokens -> "confidence"
      [] tok \in RationaleTokens -> "rationale"
      [] OTHER -> "other"

\* the empty dict; absent keys hold the defaults validate_judgement passes
\* to obj.get
EmptyObj ==
    [keys |-> {}, decision |-> "",
     labels |-> [kind |-> "list", items |-> <<>>],
     arkts_score |-> [num |-> TRUE, val |-> 0],
     quality_score |-> [num |-> TRUE, val |-> 0],
     confidence |-> [num |-> TRUE, val |-> 0],
     rationale |-> <<>>]

SetMember(obj, tok) ==
    LET o == [obj EXCEPT !.keys = @ \cup {KeyOf(tok)}] IN
    CASE tok \in DecisionTokens -> [o EXCEPT !.decision = DecisionOf(tok)]
      [] tok \in LabelTokens -> [o EXCEPT !.labels = LabelsOf(tok)]
      [] tok \in ArktsTokens -> [o EXCEPT !.arkts_score = NumberOf(tok)]
      [] tok \in QualityTokens -> [o EXCEPT !.quality_score = NumberOf(tok)]
      [] tok \in ConfidenceTokens -> [o EXCEPT !.confidence = NumberOf(tok)]
      [] tok \in RationaleTokens -> [o EXCEPT !.rationale = RationaleOf(tok)]
      [] OTHER -> o

\* members of ch[i..Len(ch)-1]; inStr: position i is inside the rationale
\* string.  A raw newline inside a string, a brace or prose outside one, and
\* an unterminated string are JSONDecodeErrors.
RECURSIVE ParseMembers(_, _, _, _)
ParseMembers(ch, i, inStr, obj) ==
    IF i >= Len(ch) THEN [ok |-> ~inStr, obj |-> obj]
    ELSE LET tok == ch[i] IN
         IF inStr
         THEN IF tok = RCLOSE THEN ParseMembers(ch, i + 1, FALSE, obj)
              ELSE IF tok \in {LB, RB, FENCE, PROSE}
              THEN ParseMembers(ch, i + 1, TRUE,
                                [obj EXCEPT !.rationale = Append(@, tok)])
              ELSE [ok |-> FALSE, obj |-> EmptyObj]
         ELSE IF tok = NL THEN ParseMembers(ch, i + 1, FALSE, obj)
              ELSE IF tok \in AllMemberTokens
              THEN ParseMembers(ch, i + 1, FALSE, SetMember(obj, tok))
              ELSE IF tok = ROPEN
              THEN ParseMembers(ch, i + 1, TRUE,
                                [obj EXCEPT !.keys = @ \cup {"rationale"},
                                            !.rationale = <<>>])
              ELSE [ok |-> FALSE, obj |-> EmptyObj]

\* json.loads(chunk): ok = no exception
JsonLoads(ch) ==
    IF Len(ch) >= 2 /\ ch[1] = LB /\ ch[Len(ch)] = RB
    THEN ParseMembers(ch, 2, FALSE, EmptyObj)
    ELSE [ok |-> FALSE, obj |-> EmptyObj]

\* ------------------------------------------------------------------------
\* extract_json_object
\* ------------------------------------------------------------------------
\* the fence stripping: only a text that starts with a fence is touched
StripFences(s) ==
    IF s # <<>> /\ Head(s) = FENCE
    THEN LET parts == Split(s, <<>>) IN
         IF Len(parts) >= 3
         THEN Strip(Join(SubSeq(parts, 2, Len(parts) - 1)))
         ELSE s
    ELSE s

\* the for loop of the brace matching: index at which the depth returns to
\* 0 when scanning from i, 0 when the text ends first
RECURSIVE CloseIdx(_, _, _)
CloseIdx(s, i, depth) ==
    IF i > Len(s) THEN 0
    ELSE IF s[i] = LB THEN CloseIdx(s, i + 1, depth + 1)
    ELSE IF s[i] = RB
         THEN IF depth - 1 = 0 THEN i ELSE CloseIdx(s, i + 1, depth - 1)
    ELSE CloseIdx(s, i + 1, depth)

\* the while loop of the brace matching, from the opening brace at start_idx
RECURSIVE BraceMatch(_, _)
BraceMatch(s, start_idx) ==
    IF start_idx = 0 THEN [found |-> FALSE, obj |-> EmptyObj]
    ELSE LET close == CloseIdx(s, start_idx, 0)
             r == IF close = 0 THEN [ok |-> FALSE, obj |-> EmptyObj]
                  ELSE JsonLoads(SubSeq(s, start_idx, close))
         IN IF r.ok THEN [found |-> TRUE, obj |-> r.obj]
            ELSE BraceMatch(s, Find(s, LB, start_idx + 1))

\* found = FALSE is the None result
extract_json_object(text) ==
    LET s == StripFences(Strip(text))
        first == Find(s, LB, 1)
        last == RFind(s, RB)
        quick == IF first > 0 /\ last > first
                 THEN JsonLoads(SubSeq(s, first, last))
                 ELSE [ok |-> FALSE, obj |-> EmptyObj]
    IN IF quick.ok THEN [found |-> TRUE, obj |-> quick.obj]
       ELSE BraceMatch(s, first)

\* ------------------------------------------------------------------------
\* validate_judgement
\* ------------------------------------------------------------------------
\* str(v).strip().upper() on the decision values of the model
StripUpper(v) == IF v = " keep " THEN "KEEP" ELSE v

\* no bound check: the value as the judge gave it
ClampNothing(lo, hi, v) == v

\* max(lo, min(hi, v))
Clamp(lo, hi, v) == Max(lo, Min(hi, v))

Judgement(d, l, a, q, c, r) ==
    [decision |-> d, labels |-> l, arkts_score |-> a, quality_score |-> q,
     confidence |-> c, rationale |-> r]

NoJudgement == Judgement("", <<>>, 0, 0, 0, <<>>)

\* the enum check left out: any decision string is accepted
validate_judgement_any_decision(obj) ==
    IF "decision" \notin obj.keys THEN [ok |-> FALSE, j |-> NoJudgement]
    ELSE IF obj.labels.kind = "other" THEN [ok |-> FALSE, j |-> NoJudgement]
    ELSE IF ~(obj.arkts_score.num /\ obj.quality_score.num /\ obj.confidence.num)
    THEN [ok |-> FALSE, j |-> NoJudgement]
    ELSE [ok |-> TRUE,
          j |-> Judgement(StripUpper(obj.decision),
                          obj.labels.items,
                          Clamp(0, ScoreMax, obj.arkts_score.val),
                          Clamp(0, ScoreMax, obj.quality_score.val),
                          Clamp(0, ConfidenceMax, obj.confidence.val),
                          SubSeq(obj.rationale, 1,
                                 Min(Len(obj.rationale), RationaleMax)))]

\* ok = FALSE is the None result
validate_judgement(obj) ==
    LET decision == StripUpper(obj.decision) IN
    IF "decision" \notin obj.keys THEN [ok |-> FALSE, j |-> NoJudgement]
    ELSE IF decision \notin Decisions THEN [ok |-> FALSE, j |-> NoJudgement]
    ELSE IF obj.labels.kind = "other" THEN [ok |-> FALSE, j |-> NoJudgement]
    ELSE IF ~(obj.arkts_score.num /\ obj.quality_score.num /\ obj.confidence.num)
    THEN [ok |-> FALSE, j |-> NoJudgement]
    ELSE [ok |-> TRUE,
          j |-> Judgement(decision,
                          obj.labels.items,
                          Clamp(0, ScoreMax, obj.arkts_score.val),
                          Clamp(0, ScoreMax, obj.quality_score.val),
                          Clamp(0, ConfidenceMax, obj.confidence.val),
                          SubSeq(obj.rationale, 1,
                                 Min(Len(obj.rationale), RationaleMax)))]

ParseFallback ==
    Judgement("KEEP_WITH_TAG", <<"PARSE_ERROR">>, FallbackScore, FallbackScore,
              ParseErrorConfidence, <<"Failed to parse model JSON">>)

\* lines 453-456 of run_one_judgement: extraction, validation, fallback.
\* An empty dict is falsy, so it is not validated.
ExtractJudgement(text) ==
    LET e == extract_json_object(text)
        v == IF e.found /\ e.obj.keys # {} THEN validate_judgement(e.obj)
             ELSE [ok |-> FALSE, j |-> NoJudgement]
    IN IF v.ok THEN v.j ELSE ParseFallback


\* ------------------------------------------------------------------------
\* The judge call and run_one_judgement
\* ------------------------------------------------------------------------
\* temps = temps or [0.1, 0.3]: a missing or empty list is the default
DefaultTemps == <<1, 3>>
TempsOr(arg) == IF arg = <<>> THEN DefaultTemps ELSE arg

\* the values of --temps: none, and a single temperature
TempsArgs == {<<>>, <<2>>}

\* A response of the judge endpoint as _http_post returns it:
\*   status   200, another HTTP status, or 0 for a transport failure
\*   body     "not_json"    the body is not JSON
\*            "scalar"      the body is JSON but no object (null, a number)
\*            "no_choices"  an object without choices[0].message.content
\*            "completion"  a chat completion whose content is the text
\*   usage    "dict", "absent" or "null" (the value of the usage member)
Response(st, b, t, u) == [status |-> st, body |-> b, content |-> t, usage |-> u]

\* the status check left out: only an undecodable body is an error
call_chat_completion_any_status(resp) ==
    IF resp.body = "not_json"
    THEN [error |-> TRUE, msg |-> <<"Invalid JSON from API">>]
    ELSE [error |-> FALSE, msg |-> <<>>]

\* call_chat_completion: error = the returned dict has the key "error"
call_chat_completion(resp) ==
    IF resp.status # HttpOk
    THEN [error |-> TRUE, msg |-> <<"HTTP">>]
    ELSE IF resp.body = "not_json"
    THEN [error |-> TRUE, msg |-> <<"Invalid JSON from API">>]
    ELSE [error |-> FALSE, msg |-> <<>>]

ItemResult(id, rep, j, t) ==
    [item_id |-> id, replica |-> rep, decision |-> j.decision,
     labels |-> j.labels, arkts_score |-> j.arkts_score,
     quality_score |-> j.quality_score, confidence |-> j.confidence,
     rationale |-> j.rationale, temperature |-> t]

NoResult == ItemResult("", 0, NoJudgement, 0)

\* json.dumps(resp)[:2000] of an object without choices: a JSON object that
\* has no decision member
DumpOf(resp) == <<LB, OTHERMEMBER, RB>>

\* run_one_judgement(item_id, code, model, temperature, ..., replica).
\*   raised  the call ends with an exception instead of an ItemResult:
\*           "error" in resp on a body that is no container, or usage.get
\*           on a null usage
\*   parsed  extract_json_object was called
run_one_judgement(job, resp) ==
    LET r == call_chat_completion(resp) IN
    IF r.error
    THEN [raised |-> FALSE, parsed |-> FALSE,
          res |-> ItemResult(job.item_id, job.replica,
                             Judgement("KEEP_WITH_TAG", <<"API_ERROR">>,
                                       FallbackScore, FallbackScore,
                                       ApiErrorConfidence, r.msg),
                             job.t)]
    ELSE IF resp.body = "scalar"
    THEN [raised |-> TRUE, parsed |-> FALSE, res |-> NoResult]
    ELSE LET raw_text == IF resp.body = "completion" THEN resp.content
                         ELSE DumpOf(resp)
             j == ExtractJudgement(raw_text)
         IN IF resp.usage = "null"
            THEN [raised |-> TRUE, parsed |-> TRUE, res |-> NoResult]
            ELSE [raised |-> FALSE, parsed |-> TRUE,
                  res |-> ItemResult(job.item_id, job.replica, j, job.t)]


\* ------------------------------------------------------------------------
\* Consensus and the final summary
\* ------------------------------------------------------------------------
\* a severity table that gives every decision the same rank
SEVERITY_flat(d) == 0

SEVERITY(d) == CASE d = "KEEP" -> 0 [] d = "KEEP_WITH_TAG" -> 1 [] OTHER -> 2

\* the keys of the vote dict, in insertion order
RECURSIVE VoteKeys(_, _)
VoteKeys(ds, seen) ==
    IF ds = <<>> THEN seen
    ELSE IF \E k \in 1..Len(seen) : seen[k] = Head(ds)
         THEN VoteKeys(Tail(ds), seen)
         ELSE VoteKeys(Tail(ds), Append(seen, Head(ds)))

Votes(ds, d) == Cardinality({k \in 1..Len(ds) : ds[k] = d})

\* the vote counts left out: the severest decision that has any vote
ConsensusDecision_severest(ds) ==
    IF ds = <<>> THEN "KEEP_WITH_TAG"
    ELSE CHOOSE d \in {ds[k] : k \in 1..Len(ds)} :
            \A k \in 1..Len(ds) : SEVERITY(ds[k]) <= SEVERITY(d)

\* the tie-break left out: of several top decisions the first one voted
ConsensusDecision_first_top(ds) ==
    IF ds = <<>> THEN "KEEP_WITH_TAG"
    ELSE LET keys == VoteKeys(ds, <<>>)
             max_votes == CHOOSE m \in {Votes(ds, keys[k]) : k \in 1..Len(keys)} :
                              \A k \in 1..Len(keys) : Votes(ds, keys[k]) <= m
             top == SelectSeq(keys, LAMBDA d : Votes(ds, d) = max_votes)
         IN top[1]

\* top: the decisions with the most votes, in the order they were first
\* voted
TopVoted(ds) ==
    LET keys == VoteKeys(ds, <<>>)
        max_votes == CHOOSE m \in {Votes(ds, keys[k]) : k \in 1..Len(keys)} :
                         \A k \in 1..Len(keys) : Votes(ds, keys[k]) <= m
    IN SelectSeq(keys, LAMBDA d : Votes(ds, d) = max_votes)

\* the condition of line 401: several top decisions, the first and the last
\* of the same severity
ForcedTie(ds) ==
    /\ ds # <<>>
    /\ Len(TopVoted(ds)) > 1
    /\ SEVERITY(TopVoted(ds)[1]) = SEVERITY(TopVoted(ds)[Len(TopVoted(ds))])

\* the decision consensus() returns for the decisions ds of the replicas
ConsensusDecision(ds) ==
    IF ds = <<>> THEN "KEEP_WITH_TAG"
    ELSE LET keys == VoteKeys(ds, <<>>)
             max_votes == CHOOSE m \in {Votes(ds, keys[k]) : k \in 1..Len(keys)} :
                              \A k \in 1..Len(keys) : Votes(ds, keys[k]) <= m
             top == SelectSeq(keys, LAMBDA d : Votes(ds, d) = max_votes)
             severest == CHOOSE d \in {top[k] : k \in 1..Len(top)} :
                              \A k \in 1..Len(top) : SEVERITY(top[k]) <= SEVERITY(d)
         IN IF Len(top) = 1 THEN top[1]
            ELSE IF ForcedTie(ds)
                 THEN "KEEP_WITH_TAG"
                 ELSE severest

\* string order of the label values
LabelOrder == <<"1", "A", "API_ERROR", "B", "EXEC_ERROR", "PARSE_ERROR">>
LabelRank(l) == CHOOSE k \in 1..Len(LabelOrder) : LabelOrder[k] = l

\* sorted(set of labels)
RECURSIVE SortedLabels(_)
SortedLabels(ls) ==
    IF ls = {} THEN <<>>
    ELSE LET x == CHOOSE l \in ls : \A y \in ls : LabelRank(l) <= LabelRank(y)
         IN <<x>> \o SortedLabels(ls \ {x})

\* "; ".join(rationales)
RECURSIVE JoinRationales(_)
JoinRationales(rs) ==
    IF rs = <<>> THEN <<>>
    ELSE IF Len(rs) = 1 THEN rs[1]
    ELSE rs[1] \o <<";", " ">> \o JoinRationales(Tail(rs))

\* sum(values) / len(values) as the exact fraction num/den
Mean(vals) == [num |-> SumSeq(vals), den |-> Len(vals)]

\* consensus(judgements): the aggregated Judgement.  The averages are exact
\* fractions; the program adds floats in list order.
consensus(js) ==
    IF js = <<>>
    THEN Judgement("KEEP_WITH_TAG", <<>>, FallbackScore, FallbackScore,
                   ParseErrorConfidence, <<"empty-judgements">>)
    ELSE LET joined == JoinRationales([k \in 1..Len(js) |-> js[k].rationale]) IN
         Judgement(ConsensusDecision([k \in 1..Len(js) |-> js[k].decision]),
                   SortedLabels(UNION {{js[k].labels[m] : m \in 1..Len(js[k].labels)}
                                          : k \in 1..Len(js)}),
                   Mean([k \in 1..Len(js) |-> js[k].arkts_score]),
                   Mean([k \in 1..Len(js) |-> js[k].quality_score]),
                   Mean([k \in 1..Len(js) |-> js[k].confidence]),
                   SubSeq(joined, 1, Min(Len(joined), RationaleMax)))

\* the keys of by_item, in insertion order
RECURSIVE ItemKeys(_, _)
ItemKeys(rows, seen) ==
    IF rows = <<>> THEN seen
    ELSE IF \E k \in 1..Len(seen) : seen[k] = Head(rows).item_id
         THEN ItemKeys(Tail(rows), seen)
         ELSE ItemKeys(Tail(rows), Append(seen, Head(rows).item_id))

\* a grouping that keeps only the first row of an item
RowsOfFirst(rows, id) == SubSeq(SelectSeq(rows, LAMBDA r : r.item_id = id), 1, 1)

\* by_item[item_id]: the rows of one item, in file order
RowsOf(rows, id) == SelectSeq(rows, LAMBDA r : r.item_id = id)

RECURSIVE DecisionsOf(_)
DecisionsOf(rows) ==
    IF rows = <<>> THEN <<>> ELSE <<Head(rows).decision>> \o DecisionsOf(Tail(rows))

\* generate_final_summary: the rows written to summary.csv
generate_final_summary(file) ==
    LET keys == ItemKeys(file, <<>>) IN
    [k \in 1..Len(keys) |->
        [item_id |-> keys[k],
         final_decision |-> ConsensusDecision(DecisionsOf(RowsOf(file, keys[k]))),
         replicas |-> Len(RowsOf(file, keys[k]))]]

\* ------------------------------------------------------------------------
\* The full sweep: process_full_data
\* ------------------------------------------------------------------------
UNKNOWN == "UNKNOWN"
IdNames == <<"a", "b", "c", "d", "e", "f", "g", "h", "i", "j", "k", "l", "m">>

\* A line of a JSONL file: a record (its id and the length of its code
\* field), a blank line, or a line that is not JSON.
Row(id, len) == [kind |-> "row", id |-> id, len_chars |-> len]
BlankLine == [kind |-> "blank", id |-> "", len_chars |-> 0]
BrokenLine == [kind |-> "broken", id |-> "", len_chars |-> 0]
\* a file: whether the path exists, and its lines
File(lines) == [exists |-> TRUE, lines |-> lines]
MissingFile == [exists |-> FALSE, lines |-> <<>>]

\* read_jsonl: the records of the file in file order; blank lines and
\* lines that do not parse are skipped
read_jsonl(file) == SelectSeq(file.lines, LAMBDA l : l.kind = "row")

\* item_id = r.get("id") or sha1_text(code), for records that have an id
RowIds(rows) == [k \in 1..Len(rows) |-> rows[k].id]

\* the corpus file of the sweep: records with pairwise distinct ids, then
\* a line that does not parse
CorpusFile ==
    File([k \in 1..NumItems |-> Row(IdNames[k], 100)] \o <<BrokenLine>>)
\* the ids of its records, in file order
Corpus == RowIds(read_jsonl(CorpusFile))
CorpusIds == {Corpus[k] : k \in 1..Len(Corpus)}

\* input files of the sweep: no file, an empty file, a file without a
\* parseable line, the corpus file
InputFiles ==
    {MissingFile, File(<<>>), File(<<BlankLine, BrokenLine>>), CorpusFile}

\* the check left out: an input without rows is processed like any other
NoRowsNever(rows) == FALSE

\* "if not rows" (line 478)
NoRows(rows) == rows = <<>>

\* string order of the ids: upper case sorts before lower case
IdRank(id) ==
    IF id = UNKNOWN THEN 0
    ELSE CHOOSE k \in 1..Len(IdNames) : IdNames[k] = id

\* the sort key (x.item_id, x.replica)
KeyLess(x, y) ==
    \/ IdRank(x.item_id) < IdRank(y.item_id)
    \/ IdRank(x.item_id) = IdRank(y.item_id) /\ x.replica < y.replica

\* x repeated n times
RECURSIVE Repeat(_, _)
Repeat(x, n) == IF n = 0 THEN <<>> ELSE <<x>> \o Repeat(x, n - 1)

\* batch_results.sort(key=lambda x: (x.item_id, x.replica)).  batch_results
\* is kept as a bag: the order in which as_completed yields the futures is
\* not used before this sort, and results with equal keys are equal.
RECURSIVE SortResults(_)
SortResults(rs) ==
    IF BagToSet(rs) = {} THEN <<>>
    ELSE LET x == CHOOSE r \in BagToSet(rs) :
                      \A y \in BagToSet(rs) : ~KeyLess(y, r)
         IN Repeat(x, CopiesIn(x, rs))
            \o SortResults([r \in BagToSet(rs) \ {x} |-> rs[r]])

\* the resume scan finds nothing
load_processed_ids_nothing(file) == {}

\* load_processed_ids_from_judgements: the item_id of every readable row
load_processed_ids_from_judgements(file) ==
    {file[k].item_id : k \in 1..Len(file)}

\* the filter of lines 482-487
RemainingRows(rows, processed) == SelectSeq(rows, LAMBDA id : id \notin processed)

\* the jobs of one item: one per replica, temperature clamped to the last
\* jobs whose replicas beyond the end of the list get temperature 0
JobsOfItemNoClamp(id, R, ts) ==
    [rep \in 1..R |->
        [item_id |-> id, replica |-> rep,
         t |-> IF rep <= Len(ts) THEN ts[rep] ELSE 0]]

\* the jobs of one item: one per replica, temperature clamped to the last
JobsOfItem(id, R, ts) ==
    [rep \in 1..R |->
        [item_id |-> id, replica |-> rep, t |-> ts[Min(rep, Len(ts))]]]

RECURSIVE JobsOf(_, _, _)
JobsOf(b, R, ts) ==
    IF b = <<>> THEN <<>>
    ELSE JobsOfItem(Head(b), R, ts) \o JobsOf(Tail(b), R, ts)

\* a pool without a worker limit
CanStartUnbounded(active, limit) == TRUE

\* ThreadPoolExecutor(max_workers=concurrency): a queued job starts only
\* on a free worker
CanStart(active, limit) == Cardinality(active) < limit

\* the except branch of the as_completed loop
ExecError ==
    ItemResult(UNKNOWN, 0,
               Judgement("KEEP_WITH_TAG", <<"EXEC_ERROR">>, FallbackScore,
                         FallbackScore, ApiErrorConfidence, <<"exception">>),
               0)

\* the loop without its except branch: the result of a raising future is lost
CollectNoExcept(out) == IF out.raised THEN EmptyBag ELSE SetToBag({out.res})

\* what the as_completed loop appends to batch_results for one future
Collect(out) == IF out.raised THEN SetToBag({ExecError}) ELSE SetToBag({out.res})


\* ------------------------------------------------------------------------
\* Stratified sampling: stratified_sample
\* ------------------------------------------------------------------------
\* A corpus record is [id, len_chars]: its id and the length of its code
\* field.  source_field and lang_field keep their default None.
length_bucket_by_chars(n) ==
    IF n < 200 THEN "len_<200"
    ELSE IF n < 800 THEN "len_200_800"
    ELSE IF n < 2000 THEN "len_800_2k"
    ELSE IF n < 6000 THEN "len_2k_6k"
    ELSE "len_6k_plus"

default_strata(row) ==
    <<length_bucket_by_chars(row.len_chars), "src_unknown", "lang_unknown">>

\* the keys of the strata dict, in insertion order
RECURSIVE StrataKeys(_, _)
StrataKeys(rows, seen) ==
    IF rows = <<>> THEN seen
    ELSE IF \E k \in 1..Len(seen) : seen[k] = default_strata(Head(rows))
         THEN StrataKeys(Tail(rows), seen)
         ELSE StrataKeys(Tail(rows), Append(seen, default_strata(Head(rows))))

\* strata[key]: the records of the stratum, in corpus order
StratumItems(rows, key) == SelectSeq(rows, LAMBDA r : default_strata(r) = key)

\* len(items) of every stratum, in the order of the keys
StrataSizes(rows) ==
    LET keys == StrataKeys(rows, <<>>) IN
    [k \in 1..Len(keys) |-> Len(StratumItems(rows, keys[k]))]

\* the minimum of one left out: the proportional floor only
FloorPassNoMinimum(sizes, n) ==
    LET total == SumSeq(sizes) IN
    [k \in 1..Len(sizes) |-> Min((sizes[k] * n) \div total, sizes[k])]

\* First pass (lines 194-197): min(max(1, floor(len/total*n)), len) for
\* every stratum.  The float product len/total*n has the floor of the exact
\* quotient for every total and n up to 21.
FloorPass(sizes, n) ==
    LET total == SumSeq(sizes) IN
    [k \in 1..Len(sizes) |-> Min(Max(1, (sizes[k] * n) \div total), sizes[k])]

\* sorted(..., key=avail, reverse=True): stable, equal keys keep their order
RECURSIVE SortSpare(_)
SortSpare(sp) ==
    IF sp = <<>> THEN <<>>
    ELSE LET p == CHOOSE k \in 1..Len(sp) :
                      /\ \A m \in 1..Len(sp) : sp[m].avail <= sp[k].avail
                      /\ \A m \in 1..(k - 1) : sp[m].avail < sp[k].avail
         IN <<sp[p]>> \o SortSpare(SubSeq(sp, 1, p - 1) \o SubSeq(sp, p + 1, Len(sp)))

\* a spare list that also holds the strata that are fully allocated
SpareListUnfiltered(sizes, alloc) ==
    SortSpare([k \in 1..Len(sizes) |-> [key |-> k, avail |-> sizes[k] - alloc[k]]])

\* the spare list of lines 202-206: (stratum, spare) of every stratum that
\* is not fully allocated, largest spare first
SpareList(sizes, alloc) ==
    SortSpare(SelectSeq([k \in 1..Len(sizes) |->
                            [key |-> k, avail |-> sizes[k] - alloc[k]]],
                        LAMBDA e : e.avail > 0))

\* The while loop of lines 208-214.  looping: quota remains and the list
\* is not empty but no entry has spare left, so the loop never ends.
\* slots: for every extra slot handed out, in order, the stratum that got
\* it and the allocation before it was given.
RECURSIVE Redistribute(_, _, _, _)
Redistribute(alloc, spare, remaining, idx) ==
    IF remaining <= 0 \/ spare = <<>>
    THEN [allocation |-> alloc, remaining |-> remaining, looping |-> FALSE,
          slots |-> <<>>]
    ELSE IF \A k \in 1..Len(spare) : spare[k].avail <= 0
    THEN [allocation |-> alloc, remaining |-> remaining, looping |-> TRUE,
          slots |-> <<>>]
    ELSE LET p == (idx % Len(spare)) + 1 IN
         IF spare[p].avail > 0
         THEN LET rest == Redistribute([alloc EXCEPT ![spare[p].key] = @ + 1],
                                       [spare EXCEPT ![p].avail = @ - 1],
                                       remaining - 1, idx + 1)
              IN [rest EXCEPT !.slots =
                      <<[key |-> spare[p].key, before |-> alloc]>> \o @]
         ELSE Redistribute(alloc, spare, remaining, idx + 1)

\* lines 190-214: the allocation of every stratum after both passes
Allocate(sizes, n) ==
    LET first == FloorPass(sizes, n)
        remaining == n - SumSeq(first)
    IN IF remaining > 0
       THEN Redistribute(first, SpareList(sizes, first), remaining, 0)
       ELSE [allocation |-> first, remaining |-> remaining, looping |-> FALSE,
             slots |-> <<>>]

\* The generator of the random module: one global state.  seed() sets it
\* from the seed alone; every draw advances it.
SeedRng(seed) == (seed * 7 + 1) % 16
NextRng(g) == (g * 5 + 3) % 16
\* random._randbelow(m)
RandBelow(g, m) == g % m

\* random.sample(population, k): k draws by partial selection, each draw
\* moving the last live element into the chosen slot
RECURSIVE RandomSample(_, _, _)
RandomSample(pool, k, g) ==
    IF k = 0 THEN [out |-> <<>>, rng |-> g]
    ELSE LET j == RandBelow(g, Len(pool)) + 1
             rest == RandomSample(
                        SubSeq([pool EXCEPT ![j] = pool[Len(pool)]], 1, Len(pool) - 1),
                        k - 1, NextRng(g))
         IN [out |-> <<pool[j]>> \o rest.out, rng |-> rest.rng]

\* random.shuffle(x): for i from the last index down to the second,
\* swap x[i] with x[randbelow(i + 1)]
RECURSIVE RandomShuffle(_, _, _)
RandomShuffle(x, i, g) ==
    IF i < 2 THEN [out |-> x, rng |-> g]
    ELSE LET j == RandBelow(g, i) + 1 IN
         RandomShuffle([x EXCEPT ![i] = x[j], ![j] = x[i]], i - 1, NextRng(g))

\* lines 217-222: the draw from every stratum, in the order of the keys
RECURSIVE DrawStrata(_, _, _, _, _)
DrawStrata(rows, keys, alloc, k, g) ==
    IF k > Len(keys) THEN [out |-> <<>>, rng |-> g]
    ELSE LET items == StratumItems(rows, keys[k])
             d == IF alloc[k] <= 0 THEN [out |-> <<>>, rng |-> g]
                  ELSE IF Len(items) > alloc[k] THEN RandomSample(items, alloc[k], g)
                  ELSE [out |-> items, rng |-> g]
             rest == DrawStrata(rows, keys, alloc, k + 1, d.rng)
         IN [out |-> d.out \o rest.out, rng |-> rest.rng]

\* the whole list is returned
TruncateNothing(xs, n) == xs

\* sampled[:n] for n >= 0
Truncate(xs, n) == SubSeq(xs, 1, Min(n, Len(xs)))

\* the generator is not seeded: the draws continue from its current state
stratified_sample_unseeded(rows, n, seed, g) ==
    LET keys == StrataKeys(rows, <<>>)
        sizes == StrataSizes(rows)
        a == Allocate(sizes, n)
        drawn == DrawStrata(rows, keys, a.allocation, 1, g)
        pool == SelectSeq(rows, LAMBDA r : \A k \in 1..Len(drawn.out) : drawn.out[k] # r)
        extra == IF Len(drawn.out) < n
                 THEN RandomSample(pool, Min(n - Len(drawn.out), Len(pool)), drawn.rng)
                 ELSE [out |-> <<>>, rng |-> drawn.rng]
        all == drawn.out \o extra.out
        shuffled == RandomShuffle(all, Len(all), extra.rng)
    IN [sampled |-> Truncate(shuffled.out, n),
        first_pass |-> FloorPass(sizes, n),
        allocation |-> a.allocation,
        looping |-> a.looping,
        slots |-> a.slots,
        rng |-> shuffled.rng]

\* stratified_sample(rows, n, seed) called while the generator is in state
\* g: the returned list, the allocation after each pass, and the state the
\* generator is left in
stratified_sample(rows, n, seed, g) ==
    LET keys == StrataKeys(rows, <<>>)
        sizes == StrataSizes(rows)
        a == Allocate(sizes, n)
        drawn == DrawStrata(rows, keys, a.allocation, 1, SeedRng(seed))
        pool == SelectSeq(rows, LAMBDA r : \A k \in 1..Len(drawn.out) : drawn.out[k] # r)
        extra == IF Len(drawn.out) < n
                 THEN RandomSample(pool, Min(n - Len(drawn.out), Len(pool)), drawn.rng)
                 ELSE [out |-> <<>>, rng |-> drawn.rng]
        all == drawn.out \o extra.out
        shuffled == RandomShuffle(all, Len(all), extra.rng)
    IN [sampled |-> Truncate(shuffled.out, n),
        first_pass |-> FloorPass(sizes, n),
        allocation |-> a.allocation,
        looping |-> a.looping,
        slots |-> a.slots,
        rng |-> shuffled.rng]


\* ------------------------------------------------------------------------
\* State
\* ------------------------------------------------------------------------
VARIABLES
    \* configuration of the sweep (the same command line on every run)
    replicas, batch_size, concurrency, temps,
    \* files of the output directory
    judgements_file, summary_file,
    \* the running process: position and locals of process_full_data
    pc, processed_ids, remaining_rows, i, batch, pending, running,
    batch_results,
    \* history of the output directory
    runs, crashes, completed, prev_completed, start_len, run_dispatched,
    judged_times, lost_batch,
    \* one call of run_one_judgement (SpecJudge)
    jpc, req, resp, out,
    \* the input file of a run
    input_file,
    \* stratified_sample: arguments, the state of the random module, the
    \* result of the last call and the list the call before it returned
    spc, corpus, sample_size, sample_seed, rng_state, sampled, prev_sampled,
    \* consensus: the argument and the result
    cpc, cjs, cout,
    \* sampled.jsonl of a round
    sampled_file

cfg == <<replicas, batch_size, concurrency, temps, input_file>>
files == <<judgements_file, summary_file>>
locals == <<processed_ids, remaining_rows, i, batch, pending, running, batch_results>>
history == <<runs, crashes, completed, prev_completed, start_len,
             run_dispatched, judged_times, lost_batch>>
judge == <<jpc, req, resp, out>>
sampling == <<spc, corpus, sample_size, sample_seed, rng_state, sampled, prev_sampled>>
aggregation == <<cpc, cjs, cout>>
\* what neither the sweep nor a judge call touches
others == <<sampling, aggregation, sampled_file>>
vars == <<cfg, files, pc, locals, history, judge, others>>

\* judge texts the sweep sees
KeepText == <<LB, "d:KEEP", "l:[]", "a:45", "q:20", "c:9", RB>>
ProseText == <<PROSE>>

\* judge responses the sweep sees: failed transport, a body that makes the
\* worker raise, a valid verdict, an unparseable answer
SweepResponses ==
    { Response(0, "not_json", <<>>, "absent"),
      Response(HttpOk, "scalar", <<>>, "absent"),
      Response(HttpOk, "completion", KeepText, "dict"),
      Response(HttpOk, "completion", ProseText, "dict") }

NoJob == [item_id |-> "", replica |-> 0, t |-> 0]
NoResponse == Response(0, "not_json", <<>>, "absent")
NoOut == [raised |-> FALSE, parsed |-> FALSE, res |-> NoResult]

\* an empty output directory and no process
IdleSweep ==
    /\ judgements_file = <<>>
    /\ summary_file = <<>>
    /\ pc = "idle"
    /\ processed_ids = {}
    /\ remaining_rows = <<>>
    /\ i = 0
    /\ batch = <<>>
    /\ pending = <<>>
    /\ running = {}
    /\ batch_results = EmptyBag
    /\ runs = 0
    /\ crashes = 0
    /\ completed = 0
    /\ prev_completed = FALSE
    /\ start_len = 0
    /\ run_dispatched = 0
    /\ judged_times = [id \in CorpusIds |-> 0]
    /\ lost_batch = {}

\* no call of run_one_judgement under way
IdleJudge ==
    /\ jpc = "off"
    /\ req = NoJob
    /\ resp = NoResponse
    /\ out = NoOut

NoSample ==
    [sampled |-> <<>>, first_pass |-> <<>>, allocation |-> <<>>,
     looping |-> FALSE, slots |-> <<>>, rng |-> 0]

\* no call of stratified_sample under way
IdleSample ==
    /\ spc = "off"
    /\ corpus = <<>>
    /\ sample_size = 0
    /\ sample_seed = 0
    /\ rng_state = 0
    /\ sampled = NoSample
    /\ prev_sampled = <<>>
    /\ sampled_file = <<>>

\* no call of consensus under way
IdleConsensus ==
    /\ cpc = "off"
    /\ cjs = <<>>
    /\ cout = NoJudgement

Init ==
    /\ replicas \in 1..MaxReplicas
    /\ batch_size \in 1..MaxBatchSize
    /\ concurrency \in 1..MaxConcurrency
    /\ temps \in {TempsOr(a) : a \in TempsArgs}
    /\ input_file \in InputFiles
    /\ IdleSweep
    /\ IdleJudge
    /\ IdleSample
    /\ IdleConsensus

\* ------------------------------------------------------------------------
\* Actions of the sweep
\* ------------------------------------------------------------------------
\* The command is started: lines 463-502.  With nothing left to do the
\* summary is regenerated and the process returns.
Start ==
    /\ pc \in {"idle", "stopped", "done", "fatal"}
    /\ runs < MaxRuns
    /\ LET ids == load_processed_ids_from_judgements(judgements_file)
           rows == read_jsonl(input_file)
           rem == RemainingRows(RowIds(rows), ids)
       IN IF ~input_file.exists \/ NoRows(rows)
          THEN \* main, lines 668-670, and lines 478-479: SystemExit
               /\ pc' = "fatal"
               /\ processed_ids' = {}
               /\ remaining_rows' = <<>>
               /\ UNCHANGED <<summary_file, completed>>
          ELSE /\ processed_ids' = ids
               /\ remaining_rows' = rem
               /\ IF Len(rem) = 0
                  THEN /\ pc' = "done"
                       /\ summary_file' = IF judgements_file # <<>>
                                          THEN generate_final_summary(judgements_file)
                                          ELSE summary_file
                       /\ completed' = completed + 1
                  ELSE /\ pc' = "batch"
                       /\ UNCHANGED <<summary_file, completed>>
    /\ i' = 0
    /\ batch' = <<>>
    /\ pending' = <<>>
    /\ running' = {}
    /\ batch_results' = EmptyBag
    /\ runs' = runs + 1
    /\ prev_completed' = (pc = "done")
    /\ start_len' = Len(judgements_file)
    /\ run_dispatched' = 0
    /\ UNCHANGED <<cfg, judgements_file, crashes, judged_times, lost_batch, judge, others>>

\* a slice that ignores the batch size: everything from position i on
BatchSliceRest(rows, at, size) == SubSeq(rows, at + 1, Len(rows))

\* remaining_rows[i:i + batch_size]
BatchSlice(rows, at, size) == SubSeq(rows, at + 1, Min(at + size, Len(rows)))

\* Lines 511-534: the next slice of remaining_rows, its jobs, and their
\* submission to the pool.
BeginBatch ==
    /\ pc = "batch"
    /\ i < Len(remaining_rows)
    /\ LET b == BatchSlice(remaining_rows, i, batch_size)
           jobs == JobsOf(b, replicas, temps)
       IN /\ batch' = b
          /\ pending' = jobs
          /\ run_dispatched' = run_dispatched + Len(jobs)
          /\ judged_times' = [id \in CorpusIds |->
                                 IF \E k \in 1..Len(b) : b[k] = id
                                 THEN judged_times[id] + 1
                                 ELSE judged_times[id]]
    /\ running' = {}
    /\ batch_results' = EmptyBag
    /\ pc' = "dispatch"
    /\ UNCHANGED <<cfg, files, processed_ids, remaining_rows, i, runs, crashes,
                   completed, prev_completed, start_len, lost_batch, judge, others>>

\* A pool worker takes the oldest queued job and calls the judge.
WorkerStart ==
    /\ pc = "dispatch"
    /\ pending # <<>>
    /\ CanStart(running, concurrency)
    /\ running' = running \cup {Head(pending)}
    /\ pending' = Tail(pending)
    /\ UNCHANGED <<cfg, files, pc, processed_ids, remaining_rows, i, batch,
                   batch_results, history, judge, others>>

\* A judge call returns; the future completes and the as_completed loop
\* (lines 536-551) collects it.
WorkerFinish ==
    /\ pc = "dispatch"
    /\ \E job \in running, r \in SweepResponses :
          /\ running' = running \ {job}
          /\ batch_results' = batch_results (+) Collect(run_one_judgement(job, r))
    /\ UNCHANGED <<cfg, files, pc, processed_ids, remaining_rows, i, batch,
                   pending, history, judge, others>>

\* the rows of lines 553-566: sorted results (the merged input fields do
\* not replace any judgement field)
ReplicaRows(results) == SortResults(results)

\* write_jsonl opening the file with mode "w": the old rows are dropped
write_jsonl_truncating(file, rows) == rows

\* write_jsonl(path, rows, append=True): mode "a", the rows go after the
\* ones the file holds
write_jsonl(file, rows) == file \o rows

\* Lines 553-569 and the loop increment: the batch is appended to the store.
Persist ==
    /\ pc = "dispatch"
    /\ pending = <<>>
    /\ running = {}
    /\ judgements_file' = write_jsonl(judgements_file, ReplicaRows(batch_results))
    /\ i' = i + batch_size
    /\ pc' = "batch"
    /\ UNCHANGED <<cfg, summary_file, processed_ids, remaining_rows, batch,
                   pending, running, batch_results, history, judge, others>>

\* Lines 587-592: the loop is over, the summary is regenerated.
Summary ==
    /\ pc = "batch"
    /\ i >= Len(remaining_rows)
    /\ summary_file' = generate_final_summary(judgements_file)
    /\ pc' = "done"
    /\ completed' = completed + 1
    /\ UNCHANGED <<cfg, judgements_file, locals, runs, crashes, prev_completed,
                   start_len, run_dispatched, judged_times, lost_batch, judge, others>>

Stopped ==
    /\ pc' = "stopped"
    /\ processed_ids' = {}
    /\ remaining_rows' = <<>>
    /\ i' = 0
    /\ batch' = <<>>
    /\ pending' = <<>>
    /\ running' = {}
    /\ batch_results' = EmptyBag
    /\ crashes' = crashes + 1
    /\ start_len' = 0
    /\ run_dispatched' = 0
    /\ UNCHANGED <<cfg, summary_file, runs, completed, prev_completed,
                   judged_times, judge, others>>

\* The process is killed between two batches or while a batch is being
\* dispatched: the results in memory are lost.
Kill ==
    /\ pc \in {"batch", "dispatch"}
    /\ lost_batch' = IF pc = "dispatch"
                     THEN lost_batch \cup {batch[k] : k \in 1..Len(batch)}
                     ELSE lost_batch
    /\ UNCHANGED judgements_file
    /\ Stopped

\* The process is killed inside write_jsonl: the rows flushed so far, a
\* proper non-empty prefix of the batch's rows, stay in the file.
KillDuringAppend ==
    /\ pc = "dispatch"
    /\ pending = <<>>
    /\ running = {}
    /\ \E k \in 1..(BagCardinality(batch_results) - 1) :
          judgements_file' =
              write_jsonl(judgements_file, SubSeq(ReplicaRows(batch_results), 1, k))
    /\ lost_batch' = lost_batch \cup {batch[k] : k \in 1..Len(batch)}
    /\ Stopped

NextSweep ==
    \/ Start
    \/ BeginBatch
    \/ WorkerStart
    \/ WorkerFinish
    \/ Persist
    \/ Summary
    \/ Kill
    \/ KillDuringAppend

Next == NextSweep

Spec == Init /\ [][Next]_vars


\* ------------------------------------------------------------------------
\* One call of run_one_judgement on an arbitrary judge response
\* ------------------------------------------------------------------------
RationaleContents == {<<>>, <<PROSE>>, <<LB>>, <<RB>>, <<FENCE>>}
ABSENT == "-"

\* the text of a JSON object with the given members (ABSENT: no such member;
\* r = <<ABSENT>>: no rationale)
ObjectText(d, l, a, q, c, r) ==
    <<LB>> \o SelectSeq(<<d, l, a, q, c>>, LAMBDA m : m # ABSENT)
           \o (IF r = <<ABSENT>> THEN <<>> ELSE <<ROPEN>> \o r \o <<RCLOSE>>)
           \o <<RB>>

ObjectTexts ==
    { ObjectText(d, l, a, q, c, r) :
        d \in DecisionTokens \cup {ABSENT}, l \in LabelTokens \cup {ABSENT},
        a \in ArktsTokens, q \in QualityTokens, c \in ConfidenceTokens,
        r \in RationaleContents \cup {<<ABSENT>>} }

\* how the judge presents an object: alone, inside a code fence (with or
\* without a language tag, closed or not), between blank lines, inside prose
Wrappers == {"bare", "fence", "tagged_fence", "open_fence", "blank", "prose"}

Wrap(w, t) ==
    CASE w = "bare" -> t
      [] w = "fence" -> <<FENCE, NL>> \o t \o <<NL, FENCE>>
      [] w = "tagged_fence" -> <<FENCE, PROSE, NL>> \o t \o <<NL, FENCE>>
      [] w = "open_fence" -> <<FENCE, NL>> \o t
      [] w = "blank" -> <<NL>> \o t \o <<NL>>
      [] OTHER -> <<PROSE>> \o t \o <<PROSE>>

\* texts without an object, with unbalanced braces, with several objects
OddTexts ==
    { <<>>, <<NL>>, <<PROSE>>, <<LB>>, <<RB>>, <<RB, LB>>, <<LB, RB>>,
      <<FENCE>>, <<FENCE, FENCE>>, <<LB, ROPEN, RB>>,
      <<LB, LB, "d:KEEP", RB>>, <<LB, "d:KEEP", RB, RB>>,
      <<LB, PROSE, RB, LB, "d:KEEP", RB>>,
      <<LB, "d:KEEP", RB, LB, "d:REMOVE", RB>>,
      <<LB, "d:MAYBE", RB, PROSE, LB, "d:REMOVE", RB>>,
      <<LB, OTHERMEMBER, RB, LB, "d:KEEP", RB>>,
      <<PROSE, LB, PROSE, LB, "d:REMOVE", RB, PROSE, RB>> }

\* an answer whose numbers are all out of range and whose rationale is one
\* character longer than the limit
LongText == <<LB, "d:KEEP", "l:[]", "a:70", "q:-10", "c:15", "r:long", RB>>

JudgeTexts ==
    {Wrap(w, t) : w \in Wrappers, t \in ObjectTexts} \cup OddTexts \cup {LongText}

\* a status other than 200 (500)
HttpError == HttpOk + 300
TransportFailure == 0

JudgeResponses ==
    { Response(TransportFailure, "not_json", <<>>, "absent"),
      Response(HttpError, "not_json", <<>>, "absent"),
      Response(HttpError, "no_choices", <<>>, "absent"),
      Response(HttpError, "completion", KeepText, "dict"),
      Response(HttpOk, "not_json", <<>>, "absent"),
      Response(HttpOk, "scalar", <<>>, "absent"),
      Response(HttpOk, "no_choices", <<>>, "absent"),
      Response(HttpOk, "no_choices", <<>>, "dict"),
      Response(HttpOk, "completion", KeepText, "null"),
      Response(HttpOk, "completion", KeepText, "absent") }
    \cup {Response(HttpOk, "completion", t, "dict") : t \in JudgeTexts}

JudgeJobs ==
    { [item_id |-> "a", replica |-> 1, t |-> DefaultTemps[1]],
      [item_id |-> "b", replica |-> 2, t |-> DefaultTemps[2]] }

InitJudge ==
    /\ replicas = 1
    /\ batch_size = 1
    /\ concurrency = 1
    /\ temps = DefaultTemps
    /\ input_file = MissingFile
    /\ IdleSweep
    /\ IdleSample
    /\ IdleConsensus
    /\ jpc = "call"
    /\ req \in JudgeJobs
    /\ resp \in JudgeResponses
    /\ out = NoOut

\* run_one_judgement is called on the request and returns or raises
JudgeCall ==
    /\ jpc = "call"
    /\ out' = run_one_judgement(req, resp)
    /\ jpc' = "returned"
    /\ UNCHANGED <<cfg, files, pc, locals, history, req, resp, others>>

NextJudge == JudgeCall

SpecJudge == InitJudge /\ [][NextJudge]_vars


\* ------------------------------------------------------------------------
\* Two calls of stratified_sample with the same arguments
\* ------------------------------------------------------------------------
\* lengths of the code field: one in each of three length buckets
TextLengths == {100, 500, 1000}

\* corpora of up to MaxCorpus records with pairwise distinct ids
Corpora ==
    UNION {{[k \in 1..m |-> Row(IdNames[k], f[k])] : f \in [1..m -> TextLengths]}
              : m \in 0..MaxCorpus}

\* a corpus with one large and two small strata: seven short records, three
\* of medium length, three long ones
SkewedCorpus ==
    [k \in 1..Len(IdNames) |->
        Row(IdNames[k], IF k <= 7 THEN 100 ELSE IF k <= 10 THEN 500 ELSE 1000)]

\* The random module is in an arbitrary state when the first call is made.
InitSample ==
    /\ replicas = 1
    /\ batch_size = 1
    /\ concurrency = 1
    /\ temps = DefaultTemps
    /\ input_file = MissingFile
    /\ IdleSweep
    /\ IdleJudge
    /\ IdleConsensus
    /\ spc = "ready"
    /\ corpus \in Corpora \cup {SkewedCorpus}
    /\ sample_size \in 0..(Max(MaxCorpus, Len(corpus)) + 1)
    /\ sample_seed \in 0..MaxSeed
    /\ rng_state \in {0, 6}
    /\ sampled = NoSample
    /\ prev_sampled = <<>>
    /\ sampled_file = <<>>

\* stratified_sample(corpus, sample_size, sample_seed) is called and returns
SampleCall ==
    /\ spc \in {"ready", "once"}
    /\ LET r == stratified_sample(corpus, sample_size, sample_seed, rng_state)
       IN /\ sampled' = r
          /\ rng_state' = r.rng
    /\ prev_sampled' = sampled.sampled
    /\ spc' = IF spc = "ready" THEN "once" ELSE "twice"
    /\ UNCHANGED <<cfg, files, pc, locals, history, judge, corpus, sample_size,
                   sample_seed, aggregation, sampled_file>>

NextSample == SampleCall

SpecSample == InitSample /\ [][NextSample]_vars


\* ------------------------------------------------------------------------
\* One call of consensus on the replica judgements of an item
\* ------------------------------------------------------------------------
\* two judgements for every decision, with different labels, scores and
\* rationales
ReplicaJudgements ==
    {Judgement(d, <<"B">>, 10, 20, 3, <<PROSE>>) : d \in Decisions}
    \cup {Judgement(d, <<"A">>, 45, 50, 9, <<>>) : d \in Decisions}

InitConsensus ==
    /\ replicas = 1
    /\ batch_size = 1
    /\ concurrency = 1
    /\ temps = DefaultTemps
    /\ input_file = MissingFile
    /\ IdleSweep
    /\ IdleJudge
    /\ IdleSample
    /\ cpc = "call"
    /\ cjs \in UNION {[1..m -> ReplicaJudgements] : m \in 0..MaxJudgements}
    /\ cout = NoJudgement

\* consensus(cjs) is called and returns
ConsensusCall ==
    /\ cpc = "call"
    /\ cout' = consensus(cjs)
    /\ cpc' = "returned"
    /\ UNCHANGED <<cfg, files, pc, locals, history, judge, sampling, cjs,
                   sampled_file>>

NextConsensus == ConsensusCall

SpecConsensus == InitConsensus /\ [][NextConsensus]_vars


\* ------------------------------------------------------------------------
\* One sampling round: run_round
\* ------------------------------------------------------------------------
\* the corpus file of a round: records with pairwise distinct ids in two
\* length buckets
RoundFile ==
    File([k \in 1..NumItems |-> Row(IdNames[k], IF k % 2 = 1 THEN 100 ELSE 500)])

InitRound ==
    /\ replicas \in 1..MaxReplicas
    /\ batch_size = 1
    /\ concurrency \in 1..MaxConcurrency
    /\ temps \in {TempsOr(a) : a \in TempsArgs}
    /\ input_file \in {MissingFile, File(<<BrokenLine>>), RoundFile}
    /\ IdleSweep
    /\ IdleJudge
    /\ IdleConsensus
    /\ spc = "off"
    /\ corpus = <<>>
    /\ sample_size \in 0..NumItems
    /\ sample_seed \in 0..MaxSeed
    /\ rng_state = 0
    /\ sampled = NoSample
    /\ prev_sampled = <<>>
    /\ sampled_file = <<>>

\* Lines 494-530: the input is read (a missing file makes read_jsonl raise,
\* no rows is a SystemExit), the sample is drawn and written, and one job
\* per sampled item and replica is submitted to the pool.
RoundStart ==
    /\ pc = "idle"
    /\ LET rows == read_jsonl(input_file)
           r == stratified_sample(rows, sample_size, sample_seed, rng_state)
       IN IF ~input_file.exists \/ NoRows(rows)
          THEN /\ pc' = "fatal"
               /\ UNCHANGED <<corpus, sampled, rng_state, sampled_file, batch, pending>>
          ELSE /\ pc' = "dispatch"
               /\ corpus' = rows
               /\ sampled' = r
               /\ rng_state' = r.rng
               /\ sampled_file' = r.sampled
               /\ batch' = RowIds(r.sampled)
               /\ pending' = JobsOf(RowIds(r.sampled), replicas, temps)
    /\ spc' = "once"
    /\ UNCHANGED <<cfg, files, processed_ids, remaining_rows, i, running,
                   batch_results, history, judge, sample_size, sample_seed,
                   prev_sampled, aggregation>>

\* the sequences that hold exactly the elements of a bag
SeqsOfBag(b) ==
    {q \in [1..BagCardinality(b) -> BagToSet(b)] :
        \A x \in BagToSet(b) :
            Cardinality({k \in 1..BagCardinality(b) : q[k] = x}) = CopiesIn(x, b)}

\* Lines 548-584: the results, in the order as_completed yielded them, are
\* grouped by item_id, one summary row is built per group, and
\* judgements.jsonl and summary.csv are written.
RoundWrite ==
    /\ pc = "dispatch"
    /\ pending = <<>>
    /\ running = {}
    /\ \E results \in SeqsOfBag(batch_results) :
          /\ judgements_file' = results
          /\ summary_file' = generate_final_summary(results)
    /\ pc' = "done"
    /\ UNCHANGED <<cfg, locals, history, judge, others>>

\* the pool of lines 526-546 is the pool of the sweep
NextRound ==
    \/ RoundStart
    \/ WorkerStart
    \/ WorkerFinish
    \/ RoundWrite

SpecRound == InitRound /\ [][NextRound]_vars


\* ------------------------------------------------------------------------
\* Properties
\* ------------------------------------------------------------------------
StoreRows(id) == {k \in 1..Len(judgements_file) : judgements_file[k].item_id = id}
StoreIds == {judgements_file[k].item_id : k \in 1..Len(judgements_file)}
Requests == {pending[k] : k \in 1..Len(pending)} \cup running
JudgementOf(res) ==
    Judgement(res.decision, res.labels, res.arkts_score, res.quality_score,
              res.confidence, res.rationale)

\* C1: no request, queued or in flight, is for an item whose id is the
\* item_id of a row of the judgements store, in any run and after any kill.
C1_NoRedispatch == \A j \in Requests : j.item_id \notin StoreIds

\* a restarted run that skips stored items and dispatches the others
C1_Witness ==
    /\ runs >= 2
    /\ crashes >= 1
    /\ running # {}
    /\ processed_ids \cap CorpusIds # {}

\* every corpus item has exactly R rows, with the replica indices 1..R
AllComplete ==
    \A id \in CorpusIds :
        /\ Cardinality(StoreRows(id)) = replicas
        /\ {judgements_file[k].replica : k \in StoreRows(id)} = 1..replicas

\* C2: after a completed run every corpus item has exactly R rows with the
\* replica indices 1..R, and no (item_id, replica) pair occurs twice.
C2_Claim ==
    pc = "done" =>
        /\ AllComplete
        /\ \A k, m \in 1..Len(judgements_file) :
              (/\ judgements_file[k].item_id = judgements_file[m].item_id
               /\ judgements_file[k].replica = judgements_file[m].replica) => k = m

\* C3: a run that follows a completed run on the same input and output
\* dispatches no request and appends no row.
C3_Claim ==
    (prev_completed /\ pc \in {"batch", "dispatch", "done"}) =>
        /\ run_dispatched = 0
        /\ Len(judgements_file) = start_len

\* C4, for the runs in which no worker raised (no EXEC_ERROR row in the
\* store): after a kill and a rerun to completion only items of a batch
\* that was in progress at a kill were judged more than once, and every
\* corpus item has its R rows.
C4_Claim ==
    (pc = "done" /\ crashes >= 1 /\ completed = 1 /\ UNKNOWN \notin StoreIds) =>
        /\ \A id \in CorpusIds : judged_times[id] > 1 => id \in lost_batch
        /\ AllComplete

\* C5: the number of judge calls in flight never exceeds the concurrency
\* limit.
C5_ConcurrencyLimit == Cardinality(running) <= concurrency

\* the limit binds: all workers busy while jobs are still queued
C5_Witness == Cardinality(running) = concurrency /\ pending # <<>>

\* C6: every submitted request of a batch is queued, in flight or has
\* exactly one collected result, so a finished batch has items * R results
\* whatever failed.
C6_OneResultPerRequest ==
    pc = "dispatch" =>
        BagCardinality(batch_results) + Cardinality(running) + Len(pending)
            = Len(batch) * replicas

\* a finished batch in which a worker raised and another request failed
C6_Witness ==
    /\ pc = "dispatch"
    /\ pending = <<>>
    /\ running = {}
    /\ BagCardinality(batch_results) >= 2
    /\ BagIn(ExecError, batch_results)
    /\ \E r \in BagToSet(batch_results) : r.labels = <<"PARSE_ERROR">>

\* C7 (final state): when the run has reached the end of the summary step,
\* every corpus item id is in the judgements store.
C7_Claim == pc = "done" => CorpusIds \subseteq StoreIds

\* C8: a failed judge call (status other than 200, transport failure, or
\* a body that is not JSON) gives an ItemResult with the request's item_id
\* and replica, KEEP_WITH_TAG, labels [API_ERROR], confidence 0.2, and
\* the parser is not called.
C8_ApiErrorPlaceholder ==
    (jpc = "returned" /\ (resp.status # HttpOk \/ resp.body = "not_json")) =>
        /\ ~out.raised
        /\ ~out.parsed
        /\ out.res.item_id = req.item_id
        /\ out.res.replica = req.replica
        /\ out.res.decision = "KEEP_WITH_TAG"
        /\ out.res.labels = <<"API_ERROR">>
        /\ out.res.confidence = ApiErrorConfidence

\* an HTTP error whose body is a JSON object, answered for replica 2 of b
C8_Witness ==
    /\ jpc = "returned"
    /\ resp.status = HttpError
    /\ resp.body = "no_choices"
    /\ req.item_id = "b"
    /\ out.res.labels = <<"API_ERROR">>

\* no JSON object with a decision that canonicalizes to an enum value is
\* extracted from the text
NoValidDecision(text) ==
    LET e == extract_json_object(text) IN
    \/ ~e.found
    \/ "decision" \notin e.obj.keys
    \/ StripUpper(e.obj.decision) \notin Decisions

\* C9: every raw judge text gives a Judgement without an exception, and
\* when no object with a valid decision is extracted the Judgement is the
\* fallback KEEP_WITH_TAG, [PARSE_ERROR], 3.0, 3.0, 0.3.
C9_FallbackOnUnparseable ==
    (jpc = "returned" /\ resp.status = HttpOk /\ resp.body = "completion"
        /\ resp.usage # "null") =>
        /\ ~out.raised
        /\ out.res.decision \in Decisions
        /\ NoValidDecision(resp.content) =>
              /\ out.res.decision = "KEEP_WITH_TAG"
              /\ out.res.labels = <<"PARSE_ERROR">>
              /\ out.res.arkts_score = FallbackScore
              /\ out.res.quality_score = FallbackScore
              /\ out.res.confidence = ParseErrorConfidence

\* several objects, the first of which has no valid decision
C9_Witness ==
    /\ jpc = "returned"
    /\ resp.content = <<LB, "d:MAYBE", RB, PROSE, LB, "d:REMOVE", RB>>
    /\ out.res.labels = <<"PARSE_ERROR">>

\* C10: a text that is one well-formed object with valid fields, bare or
\* wrapped in a code fence, gives a Judgement equal to the payload field by
\* field.
C10_Claim ==
    \A d \in {"d:KEEP", "d:KEEP_WITH_TAG", "d:REMOVE"}, l \in {"l:[]", "l:[A]"},
       r \in RationaleContents, w \in {"bare", "fence", "tagged_fence"} :
        (/\ jpc = "returned"
         /\ resp = Response(HttpOk, "completion",
                            Wrap(w, ObjectText(d, l, "a:45", "q:20", "c:9", r)),
                            "dict")) =>
            /\ ~out.raised
            /\ JudgementOf(out.res) =
                  Judgement(DecisionOf(d), LabelsOf(l).items, 45, 20, 9, r)


\* the ids of the records of a list
IdsOf(rs) == {rs[k].id : k \in 1..Len(rs)}

\* C11: stratified_sample returns exactly min(n, |C|) records, and no
\* record id occurs twice among them.
C11_SampleSize ==
    spc \in {"once", "twice"} =>
        /\ Len(sampled.sampled) = Min(sample_size, Len(corpus))
        /\ Cardinality(IdsOf(sampled.sampled)) = Len(sampled.sampled)

\* more strata than requested records: the drawn list is cut to n
C11_Witness ==
    /\ spc = "once"
    /\ sample_size >= 1
    /\ Len(StrataKeys(corpus, <<>>)) > sample_size
    /\ Len(sampled.sampled) = sample_size

\* C12: the allocations of the strata after the remainder redistribution
\* sum to the size of the returned sample.
C12_Claim ==
    spc \in {"once", "twice"} =>
        SumSeq(sampled.allocation) = Len(sampled.sampled)

\* C13: for n >= 1 the allocation of every stratum, after the floor pass
\* and after the redistribution, is at least 1 and at most the size of the
\* stratum; a stratum of 1 record in a corpus of 1000 with n = 50 gets 1.
C13_AllocationBounds ==
    /\ (spc \in {"once", "twice"} /\ sample_size >= 1) =>
          \A k \in 1..Len(StrataSizes(corpus)) :
              /\ sampled.first_pass[k] \in 1..StrataSizes(corpus)[k]
              /\ sampled.allocation[k] \in 1..StrataSizes(corpus)[k]
    /\ FloorPass(<<1, 999>>, 50)[1] = 1
    /\ Allocate(<<1, 999>>, 50).allocation[1] = 1
    /\ Allocate(<<999, 1>>, 50).allocation[2] = 1

\* a stratum whose proportional floor is 0, and a redistribution that
\* gave out extra slots
C13_Witness ==
    /\ spc = "once"
    /\ sample_size >= 1
    /\ \E k \in 1..Len(StrataSizes(corpus)) :
          /\ (StrataSizes(corpus)[k] * sample_size) \div Len(corpus) = 0
          /\ sampled.allocation[k] = 1
    /\ sampled.allocation # sampled.first_pass

\* C20: two calls with the same corpus, n and seed return the same records
\* in the same order.
C20_SameSeedSameSample ==
    spc = "twice" => prev_sampled = sampled.sampled

\* a second call whose result is not in corpus order
C20_Witness ==
    /\ spc = "twice"
    /\ Len(sampled.sampled) >= 2
    /\ sampled.sampled # SubSeq(corpus, 1, Len(sampled.sampled))
    /\ rng_state # SeedRng(sample_seed)

\* the decisions of the judgements passed to consensus
CjsDecisions == [k \in 1..Len(cjs) |-> cjs[k].decision]

\* the decisions with the most votes
TopDecisions ==
    {d \in Decisions :
        /\ Votes(CjsDecisions, d) > 0
        /\ \A e \in Decisions : Votes(CjsDecisions, e) <= Votes(CjsDecisions, d)}

\* the orderings of a list
Orderings(js) ==
    {[k \in 1..Len(js) |-> js[f[k]]] :
        f \in {g \in [1..Len(js) -> 1..Len(js)] :
                  \A a, b \in 1..Len(js) : g[a] = g[b] => a = b}}

\* C14: when one decision has strictly more votes than every other
\* decision, consensus returns it, whatever its severity.
C14_Majority ==
    (cpc = "returned" /\ cjs # <<>>) =>
        \A d \in Decisions :
            (\A e \in Decisions \ {d} :
                Votes(CjsDecisions, d) > Votes(CjsDecisions, e))
            => cout.decision = d

\* [KEEP, KEEP, REMOVE] gives KEEP
C14_Witness ==
    /\ cpc = "returned"
    /\ CjsDecisions = <<"KEEP", "KEEP", "REMOVE">>
    /\ cout.decision = "KEEP"

\* C15: when several decisions tie for the most votes, consensus returns
\* the most severe of them, in every order of the replicas.
C15_TieSeverity ==
    (cpc = "returned" /\ Cardinality(TopDecisions) >= 2) =>
        /\ cout.decision \in TopDecisions
        /\ \A d \in TopDecisions : SEVERITY(d) <= SEVERITY(cout.decision)
        /\ \A js \in Orderings(cjs) : consensus(js).decision = cout.decision

\* a three-way tie whose first voted decision is the least severe
C15_Witness ==
    /\ cpc = "returned"
    /\ CjsDecisions = <<"KEEP", "KEEP_WITH_TAG", "REMOVE">>
    /\ cout.decision = "REMOVE"

\* C16: consensus returns the same aggregated Judgement for every ordering
\* of the same replica judgements.
C16_Claim ==
    cpc = "returned" => \A js \in Orderings(cjs) : consensus(js) = cout

\* C17, for the runs in which no worker raised (no EXEC_ERROR row in the
\* store): every row of the summary was built from all R replica results
\* of its item, also after an interrupted run.
C17_Claim ==
    UNKNOWN \notin StoreIds =>
        \A k \in 1..Len(summary_file) : summary_file[k].replicas = replicas

\* C18: a round over a corpus of at least n records writes n rows to
\* sampled, n * R rows to judgements and n rows to summary, each summary
\* row with replicas = R.
C18_Claim ==
    (pc = "done" /\ Len(corpus) >= sample_size) =>
        /\ Len(sampled_file) = sample_size
        /\ Len(judgements_file) = sample_size * replicas
        /\ Len(summary_file) = sample_size
        /\ \A k \in 1..Len(summary_file) : summary_file[k].replicas = replicas

\* C19: when the input yields no records the run ends with a fatal error,
\* no judge request is dispatched and no row is appended to the store.
C19_NoRowsFatal ==
    (~input_file.exists \/ read_jsonl(input_file) = <<>>) =>
        /\ pc \in {"idle", "fatal"}
        /\ Requests = {}
        /\ run_dispatched = 0
        /\ judgements_file = <<>>

\* a run on a file that has lines but no parseable one has ended
C19_Witness ==
    /\ pc = "fatal"
    /\ runs >= 1
    /\ input_file = File(<<BlankLine, BrokenLine>>)

\* ------------------------------------------------------------------------
\* C21: a run of the sweep never changes or removes a row the store already
\* holds: every step leaves the old rows as a prefix of the file, and the
\* file grows only when every request of the current batch has completed
\* (nothing queued, nothing running), once per batch: the append ends the
\* batch (or the process) and a completed append writes one row per
\* collected result.
C21_AppendOnly ==
    [][ /\ Len(judgements_file') >= Len(judgements_file)
        /\ SubSeq(judgements_file', 1, Len(judgements_file)) = judgements_file
        /\ judgements_file' # judgements_file =>
              /\ pc = "dispatch"
              /\ pending = <<>>
              /\ running = {}
              /\ pc' \in {"batch", "stopped"}
              /\ pc' = "batch" =>
                    Len(judgements_file') =
                        Len(judgements_file) + BagCardinality(batch_results) ]_vars

\* a run that found rows in the store has appended a batch after them
C21_Witness ==
    /\ pc = "batch"
    /\ start_len > 0
    /\ Len(judgements_file) > start_len

\* ------------------------------------------------------------------------
\* C22: the remaining items are cut, in corpus order, into consecutive
\* batches of at most batch_size items (the batch at offset i holds exactly
\* the items at positions i+1 .. i+batch_size, fewer at the end, and i is a
\* multiple of batch_size, so every remaining item is in exactly one
\* batch); while a batch is dispatched every request belongs to one of its
\* items and the rows of all earlier batches of the run are in the store.
C22_ConsecutiveBatches ==
    /\ pc \in {"batch", "dispatch"} => i % batch_size = 0
    /\ pc = "dispatch" =>
          /\ i < Len(remaining_rows)
          /\ Len(batch) = Min(batch_size, Len(remaining_rows) - i)
          /\ \A k \in 1..Len(batch) : batch[k] = remaining_rows[i + k]
          /\ \A j \in Requests : \E k \in 1..Len(batch) : j.item_id = batch[k]
          /\ Len(judgements_file) = start_len + i * replicas
          /\ run_dispatched = (i + Len(batch)) * replicas
    /\ pc = "batch" =>
          /\ Len(judgements_file) = start_len + Min(i, Len(remaining_rows)) * replicas
          /\ run_dispatched = Min(i, Len(remaining_rows)) * replicas

\* the second batch of a run is being dispatched
C22_Witness ==
    /\ pc = "dispatch"
    /\ i > 0
    /\ running # {}

\* ------------------------------------------------------------------------
\* C23: when a sweep is complete, the summary has exactly one row for every
\* item_id that occurs anywhere in the judgements store (rows of earlier
\* runs included) and no row for any other id; the row's replicas field is
\* the number of store rows with that item_id and its decision is the
\* consensus of exactly those rows, taken in file order.
C23_SummaryOfStore ==
    pc = "done" =>
      /\ Len(summary_file) = Cardinality(StoreIds)
      /\ \A k \in 1..Len(summary_file) : summary_file[k].item_id \in StoreIds
      /\ \A id \in StoreIds :
            LET rows == SelectSeq(judgements_file, LAMBDA r : r.item_id = id)
                js == [k \in 1..Len(rows) |-> JudgementOf(rows[k])]
            IN \E k \in 1..Len(summary_file) :
                  /\ summary_file[k].item_id = id
                  /\ summary_file[k].replicas = Cardinality(StoreRows(id))
                  /\ summary_file[k].final_decision = consensus(js).decision

\* a completed sweep whose store holds rows of an earlier, interrupted run
\* next to the rows of the last run, several replicas per item
C23_Witness ==
    /\ pc = "done"
    /\ replicas > 1
    /\ start_len > 0
    /\ Len(judgements_file) > start_len
    /\ Len(summary_file) > 1

\* ------------------------------------------------------------------------
\* C24: the request of replica r carries temperature temps[min(r, |temps|)]
\* (counting from 1): replicas beyond the end of the list reuse its last
\* value.  This holds for every request queued or in flight and for every
\* stored row of a request that returned; and when a batch has just been
\* submitted its queue holds exactly one request per item of the batch and
\* replica index 1..R.
C24_TemperatureByReplica ==
    /\ \A j \in Requests :
          /\ j.replica \in 1..replicas
          /\ j.t = temps[Min(j.replica, Len(temps))]
    /\ \A k \in 1..Len(judgements_file) :
          judgements_file[k].item_id # UNKNOWN =>
              judgements_file[k].temperature =
                  temps[Min(judgements_file[k].replica, Len(temps))]
    /\ (pc = "dispatch" /\ running = {} /\ batch_results = EmptyBag) =>
          /\ Len(pending) = Len(batch) * replicas
          /\ \A k \in 1..Len(batch), r \in 1..replicas :
                Cardinality({m \in 1..Len(pending) :
                                /\ pending[m].item_id = batch[k]
                                /\ pending[m].replica = r}) = 1

\* a replica beyond the end of the temperature list is in flight, and a
\* row of such a replica is in the store
C24_Witness ==
    /\ \E j \in running : j.replica > Len(temps)
    /\ \E k \in 1..Len(judgements_file) :
          /\ judgements_file[k].replica > Len(temps)
          /\ judgements_file[k].item_id # UNKNOWN

\* ------------------------------------------------------------------------
\* a Judgement with every field in its range (scores and confidence in
\* tenths)
InRange(j) ==
    /\ j.decision \in Decisions
    /\ j.arkts_score \in 0..ScoreMax
    /\ j.quality_score \in 0..ScoreMax
    /\ j.confidence \in 0..ConfidenceMax
    /\ Len(j.rationale) <= RationaleMax

\* the same for a consensus, whose averages are fractions
MeanInRange(m, hi) == m.den > 0 /\ 0 <= m.num /\ m.num <= hi * m.den
ConsensusInRange(j) ==
    /\ j.decision \in Decisions
    /\ MeanInRange(j.arkts_score, ScoreMax)
    /\ MeanInRange(j.quality_score, ScoreMax)
    /\ MeanInRange(j.confidence, ConfidenceMax)
    /\ Len(j.rationale) <= RationaleMax

\* the bound of lo..hi nearest to v
Nearest(lo, hi, v) == IF v < lo THEN lo ELSE IF v > hi THEN hi ELSE v

\* C25: every Judgement run_one_judgement returns (validated, parse
\* fallback, API-error placeholder) and every consensus built from it, alone
\* or together with other judgements, has a decision of the enum, both
\* scores in [0,5], a confidence in [0,1] and a rationale of at most 400
\* characters; and an answer that is a well-formed object with a valid
\* decision, a list of labels and numbers outside their ranges is accepted
\* with each number moved to the nearest bound.
C25_JudgementRanges ==
    (jpc = "returned" /\ ~out.raised) =>
        LET j == JudgementOf(out.res) IN
        /\ InRange(j)
        /\ InRange(consensus(<<>>))
        /\ \A js \in {<<j>>, <<j, j>>} \cup {<<j, o>> : o \in ReplicaJudgements}
                                        \cup {<<o, j, j>> : o \in ReplicaJudgements} :
              ConsensusInRange(consensus(js))
        /\ \A d \in {"d:KEEP", "d:KEEP_WITH_TAG", "d:REMOVE"}, l \in {"l:[]", "l:[A]"},
              a \in {"a:45", "a:70"}, q \in QualityTokens, c \in ConfidenceTokens :
              resp = Response(HttpOk, "completion", ObjectText(d, l, a, q, c, <<>>), "dict") =>
                  /\ j.decision = DecisionOf(d)
                  /\ j.arkts_score = Nearest(0, ScoreMax, NumberOf(a).val)
                  /\ j.quality_score = Nearest(0, ScoreMax, NumberOf(q).val)
                  /\ j.confidence = Nearest(0, ConfidenceMax, NumberOf(c).val)

\* the judge answered with all three numbers out of range and a rationale
\* longer than the limit; the verdict was accepted, clamped and truncated
C25_Witness ==
    /\ jpc = "returned"
    /\ resp.content = LongText
    /\ out.res.decision = "KEEP"
    /\ out.res.arkts_score = ScoreMax
    /\ out.res.quality_score = 0
    /\ out.res.confidence = ConfidenceMax
    /\ Len(out.res.rationale) = RationaleMax

\* ------------------------------------------------------------------------
\* C26: every extra slot of the remainder redistribution goes to a stratum
\* whose remaining spare (|stratum| - alloc) is, at the moment the slot is
\* given, the largest of all strata.
C26_Claim ==
    spc \in {"once", "twice"} =>
        LET sizes == StrataSizes(corpus) IN
        \A k \in 1..Len(sampled.slots) :
            LET slot == sampled.slots[k] IN
            \A m \in 1..Len(sizes) :
                sizes[slot.key] - slot.before[slot.key] >= sizes[m] - slot.before[m]

\* ------------------------------------------------------------------------
\* C27: an answer that is a well-formed object with a valid decision and
\* valid numbers is accepted with its labels when the labels field is a
\* list of strings, the empty list included, and gives the PARSE_ERROR
\* fallback when the labels field is anything else: a value that is not a
\* list (null, a string) or a list with an element that is not a string.
C27_Claim ==
    (jpc = "returned" /\ ~out.raised) =>
        \A d \in {"d:KEEP", "d:KEEP_WITH_TAG", "d:REMOVE"}, l \in LabelTokens,
           a \in {"a:45", "a:70"}, q \in QualityTokens, c \in ConfidenceTokens :
           resp = Response(HttpOk, "completion", ObjectText(d, l, a, q, c, <<>>), "dict") =>
               IF l \in {"l:[]", "l:[A]"}
               THEN /\ out.res.decision = DecisionOf(d)
                    /\ out.res.labels = LabelsOf(l).items
               ELSE out.res.labels = <<"PARSE_ERROR">>

\* ------------------------------------------------------------------------
\* C28: for every non-empty list of judgements with decisions of the enum
\* the consensus decision is one of the decisions with the most votes, and
\* the condition that forces KEEP_WITH_TAG on a tie of equal severity is
\* never true.
C28_TopVotedDecision ==
    (cpc = "returned" /\ cjs # <<>>) =>
        /\ cout.decision \in TopDecisions
        /\ ~ForcedTie(CjsDecisions)

\* KEEP and REMOVE tie with one vote each, KEEP_WITH_TAG has none
C28_Witness ==
    /\ cpc = "returned"
    /\ CjsDecisions = <<"KEEP", "REMOVE">>
    /\ cout.decision = "REMOVE"

\* ------------------------------------------------------------------------
\* C29: every row of the judgements store carries the id of a corpus item
\* and a replica index 1..R, and every result collected for a batch carries
\* the id of an item of that batch, also when the worker of the request
\* raised an exception.
C29_Claim ==
    /\ \A k \in 1..Len(judgements_file) :
          /\ judgements_file[k].item_id \in CorpusIds
          /\ judgements_file[k].replica \in 1..replicas
    /\ \A res \in BagToSet(batch_results) :
          /\ \E k \in 1..Len(batch) : res.item_id = batch[k]
          /\ res.replica \in 1..replicas

\* ------------------------------------------------------------------------
\* C30: the remainder redistribution of stratified_sample always ends: it
\* never reaches a point where quota remains and the spare list is not
\* empty but holds no stratum with spare left, whatever the corpus and n
\* (n larger than the corpus included).
C30_RedistributionEnds ==
    spc \in {"once", "twice"} =>
        /\ ~sampled.looping
        /\ LET sizes == StrataSizes(corpus) IN
           \A k \in 1..Len(sampled.slots) :
               sampled.slots[k].before[sampled.slots[k].key]
                   < sizes[sampled.slots[k].key]

\* quota remained after the floor pass, the loop handed out two slots and
\* ended with the quota used up
C30_Witness ==
    /\ spc = "once"
    /\ sample_size > SumSeq(sampled.first_pass)
    /\ Len(sampled.slots) >= 2
    /\ SumSeq(sampled.allocation) = sample_size

=============================================================================
